---------------------------- MODULE Spec2Model ----------------------------
(***************************************************************************)
(* Model of the audio_processing package: the ffmpeg capability registry   *)
(* (ffmpeg_utils.py), the WAV converter (file_utils.py) and the guitar     *)
(* track isolator (source_separation.py).                                  *)
(*                                                                         *)
(* Text is modelled as a sequence of atoms.  An atom is either a single    *)
(* character ("D", "E", " ", ",") or a word: a non-empty string holding no *)
(* whitespace and no comma whose first character is neither D nor E, so    *)
(* that the character classes of the regular expression decide a word by   *)
(* its first character.                                                    *)
(***************************************************************************)
EXTENDS Integers, Sequences, FiniteSets, TLC

VARIABLES
    stdout,     \* text printed by `ffmpeg -formats`, as a sequence of lines
    built,      \* outcome of the last _build_audio_formats_dict call
    files,      \* registry files on disk: path -> content
    cache,      \* the lru_cache(maxsize=1) of _load_audio_formats_dict
    fs,         \* audio files on disk: path -> content
    model,      \* the lru_cache(maxsize=1) of _get_htdemucs_model
    env,        \* what the demucs / torch runtime offers
    first,      \* what the first successful load returned (a map, or a model), if any
    last        \* the last call: its arguments, its outcome, the state before

vars == <<stdout, built, files, cache, fs, model, env, first, last>>

None == "None"

(***************************************************************************)
(* Bounds                                                                  *)
(***************************************************************************)
MaxLineLen == 5     \* atoms in a line of the exhaustively enumerated lines
MaxLines == 2       \* lines in a listing built from the ffmpeg-style lines

(***************************************************************************)
(* ffmpeg_utils.py: parsing the capability listing                         *)
(***************************************************************************)
Whitespace == {" "}

IsSpace(c) == c \in Whitespace

RawAtoms == {"D", "E", " ", ",", "wav"}

\* One attempt of r'^\s*([D\s])([E\s])\s+(\S+)\s+.*$' on line: \s* takes k
\* atoms, the first \s+ takes m, \S+ takes n, the second \s+ takes at least
\* one and .* the rest.
MatchAt(line, k, m, n) ==
    /\ m >= 1
    /\ n >= 1
    /\ k + 2 + m + n + 1 <= Len(line)
    /\ \A i \in 1..k : IsSpace(line[i])
    /\ line[k + 1] \in {"D"} \cup Whitespace
    /\ line[k + 2] \in {"E"} \cup Whitespace
    /\ \A i \in (k + 3)..(k + 2 + m) : IsSpace(line[i])
    /\ \A i \in (k + 3 + m)..(k + 2 + m + n) : ~IsSpace(line[i])
    /\ IsSpace(line[k + 3 + m + n])

\* The attempts that succeed.  An attempt consumes k + 2 + m + n + 1 atoms at
\* least, which bounds k, m and n.
Attempts(line) ==
    LET room(k) == Len(line) - k - 4 IN
    {t \in UNION {{k} \X (1..room(k)) \X (1..room(k)) : k \in 0..(Len(line) - 5)} :
        MatchAt(line, t[1], t[2], t[3])}

\* The quantifiers are greedy: backtracking tries the longest \s* first, then
\* the longest \s+, then the longest \S+.
Before(s, t) ==
    \/ s[1] > t[1]
    \/ s[1] = t[1] /\ s[2] > t[2]
    \/ s[1] = t[1] /\ s[2] = t[2] /\ s[3] >= t[3]

\* re.match: no match, or the groups of the first successful attempt.
ReMatch(line) ==
    LET A == Attempts(line) IN
    IF A = {} THEN [matched |-> FALSE, g1 |-> "", g2 |-> "", g3 |-> <<>>]
    ELSE LET t == CHOOSE s \in A : \A u \in A : Before(s, u)
         IN  [matched |-> TRUE,
              g1 |-> line[t[1] + 1],
              g2 |-> line[t[1] + 2],
              g3 |-> SubSeq(line, t[1] + 3 + t[2], t[1] + 2 + t[2] + t[3])]

\* str.split(','): the pieces between the commas, empty pieces included.
RECURSIVE Split(_)
Split(s) ==
    IF \A i \in 1..Len(s) : s[i] # "," THEN <<s>>
    ELSE LET i == CHOOSE j \in 1..Len(s) :
                      s[j] = "," /\ \A h \in 1..(j - 1) : s[h] # ","
         IN  <<SubSeq(s, 1, i - 1)>> \o Split(SubSeq(s, i + 1, Len(s)))

\* str.strip(): leading and trailing whitespace removed.
RECURSIVE Strip(_)
Strip(s) ==
    IF s = <<>> THEN s
    ELSE IF IsSpace(s[1]) THEN Strip(Tail(s))
    ELSE IF IsSpace(s[Len(s)]) THEN Strip(SubSeq(s, 1, Len(s) - 1))
    ELSE s

\* The string an atom sequence spells.
RECURSIVE Text(_)
Text(s) == IF s = <<>> THEN "" ELSE s[1] \o Text(Tail(s))

\* A dict assignment that keeps the value of a key already present.
DictSetDefault(d, key, value) ==
    [k \in (DOMAIN d) \cup {key} |-> IF k \in DOMAIN d THEN d[k] ELSE value]

\* formats[name] = value on a dict: a function whose domain is its key set.
DictSet(d, key, value) ==
    [k \in (DOMAIN d) \cup {key} |-> IF k = key THEN value ELSE d[k]]

EmptyDict == [k \in {} |-> <<FALSE, FALSE>>]

\* for name in names: formats[name.strip()] = [demuxable, muxable]
RECURSIVE SetNames(_, _, _)
SetNames(d, names, value) ==
    IF names = <<>> THEN d
    ELSE SetNames(DictSet(d, Text(Strip(names[1])), value), Tail(names), value)

\* The loop body with the mux flag read from the first group.
ParseLineWrongGroup(d, line) ==
    LET match == ReMatch(line) IN
    IF ~match.matched THEN d
    ELSE LET demuxable == match.g1 = "D"
             muxable == match.g1 = "E"
             names == Split(match.g3)
         IN  SetNames(d, names, <<demuxable, muxable>>)

\* The body of the loop over result.stdout.splitlines() for one line.
ParseLine(d, line) ==
    LET match == ReMatch(line) IN
    IF ~match.matched THEN d
    ELSE LET demuxable == match.g1 = "D"
             muxable == match.g2 = "E"
             names == Split(match.g3)
         IN  SetNames(d, names, <<demuxable, muxable>>)

RECURSIVE ParseLines(_, _)
ParseLines(d, lines) ==
    IF lines = <<>> THEN d
    ELSE ParseLines(ParseLine(d, lines[1]), Tail(lines))

\* _build_audio_formats_dict, given how the two ffmpeg runs went.
BuildAudioFormatsDict(version_ok, formats_ok, out) ==
    IF ~version_ok
    THEN [done |-> TRUE, err |-> "FFmpegNotInstalledError", formats |-> EmptyDict]
    ELSE IF ~formats_ok
    THEN [done |-> TRUE, err |-> "FFmpegExecutionError", formats |-> EmptyDict]
    ELSE [done |-> TRUE, err |-> None, formats |-> ParseLines(EmptyDict, out)]

(***************************************************************************)
(* Listings the build is run on                                            *)
(***************************************************************************)
SeqsUpTo(S, n) == UNION {[1..i -> S] : i \in 0..n}

RawLines == SeqsUpTo(RawAtoms, MaxLineLen)

Aliases == {"wav", "wave"}

FlagPairs == {<<"D", "E">>, <<"D", " ">>, <<" ", "E">>, <<" ", " ">>}

AliasLists == {<<a>> : a \in Aliases} \cup {<<a, ",", b>> : a, b \in Aliases}

\* Lines laid out as ffmpeg prints them: " DE wav,wave  description".
FormatLines ==
    {<<" ">> \o f \o <<" ">> \o n \o <<" ", " ", "WAV">> :
        f \in FlagPairs, n \in AliasLists}

HeaderLines == {<<"File", " ", "formats:">>, <<" ", "--">>}

\* The line of the documented example, `D E  wav,wave  WAV format`.
SpacedFlagsLine ==
    <<"D", " ", "E", " ", " ", "wav", ",", "wave", " ", " ", "WAV", " ", "format">>

\* The same line with the flags adjacent, `DE  wav,wave  WAV format`.
AdjacentFlagsLine ==
    <<"D", "E", " ", " ", "wav", ",", "wave", " ", " ", "WAV", " ", "format">>

Listings ==
    {<<l>> : l \in RawLines \cup {SpacedFlagsLine, AdjacentFlagsLine}}
        \cup SeqsUpTo(FormatLines \cup HeaderLines, MaxLines)

(***************************************************************************)
(* Specification of the build                                              *)
(***************************************************************************)
NoCall == [op |-> None]

NotBuilt == [done |-> FALSE, err |-> None, formats |-> EmptyDict]

InitBuild ==
    /\ stdout \in Listings
    /\ built = NotBuilt
    /\ files = None
    /\ cache = None
    /\ fs = None
    /\ model = None
    /\ env = None
    /\ first = None
    /\ last = NoCall

Build ==
    /\ ~built.done
    /\ \E version_ok, formats_ok \in BOOLEAN :
          built' = BuildAudioFormatsDict(version_ok, formats_ok, stdout)
    /\ UNCHANGED <<stdout, files, cache, fs, model, env, first, last>>

NextBuild == Build

SpecBuild == InitBuild /\ [][NextBuild]_vars

(***************************************************************************)
(* ffmpeg_utils.py: the registry file, its memoized load, the validation   *)
(***************************************************************************)
AUDIO_FORMATS_SAVE_PATH == "audio_formats.json"

Paths == {AUDIO_FORMATS_SAVE_PATH, "other.json"}

\* Content of a registry file.  json.dump followed by json.load gives back a
\* dict of strings to two-element boolean lists unchanged, so a well-formed
\* file is modelled by the dict it holds.
Absent == [kind |-> "absent", data |-> EmptyDict]

Corrupt == [kind |-> "corrupt", data |-> EmptyDict]

Json(d) == [kind |-> "json", data |-> d]

EmptyCache == [full |-> FALSE, key |-> <<>>, value |-> EmptyDict]

\* The positional arguments of a load call: none (the default path is used
\* implicitly) or the path.
LoadArgs == {<<>>} \cup {<<p>> : p \in Paths}

\* The body of _load_audio_formats_dict.
ReadAudioFormatsFile(fls, save_path) ==
    IF fls[save_path].kind = "absent"
    THEN [err |-> "FileNotFoundError", value |-> EmptyDict]
    ELSE IF fls[save_path].kind = "corrupt"
    THEN [err |-> "JSONDecodeError", value |-> EmptyDict]
    ELSE [err |-> None, value |-> fls[save_path].data]

\* A cache that keys every call alike, whatever its arguments.
CacheKeyIgnoringArgs(args) == <<>>

\* The key functools.lru_cache makes of a call: the arguments as passed; a
\* defaulted parameter is not part of it.
CacheKey(args) == args

\* _load_audio_formats_dict under @lru_cache(maxsize=1): a call whose key is
\* the cached one returns the cached value; any other call runs the body
\* and, when the body returns, its result replaces the cached entry.  An
\* exception leaves the cache as it was.
LoadAudioFormatsDict(c, fls, args) ==
    LET save_path == IF args = <<>> THEN AUDIO_FORMATS_SAVE_PATH ELSE args[1]
        body == ReadAudioFormatsFile(fls, save_path)
    IN  IF c.full /\ c.key = CacheKey(args)
        THEN [cache |-> c, read |-> FALSE, err |-> None, value |-> c.value]
        ELSE IF body.err # None
        THEN [cache |-> c, read |-> TRUE, err |-> body.err, value |-> EmptyDict]
        ELSE [cache |-> [full |-> TRUE, key |-> CacheKey(args), value |-> body.value],
              read |-> TRUE, err |-> None, value |-> body.value]

\* The chain with the output format checked before the input format.
CheckOutputFirst(supported_formats, input_format, input_path, output_format, output_path) ==
    IF output_format \notin DOMAIN supported_formats
    THEN [err |-> "AudioFormatUnsupportedError", format |-> output_format,
          path |-> output_path, looked |-> <<output_format>>]
    ELSE IF ~supported_formats[output_format][2]
    THEN [err |-> "AudioMuxingError", format |-> output_format,
          path |-> output_path, looked |-> <<output_format>>]
    ELSE IF input_format \notin DOMAIN supported_formats
    THEN [err |-> "AudioFormatUnsupportedError", format |-> input_format,
          path |-> input_path, looked |-> <<output_format, input_format>>]
    ELSE IF ~supported_formats[input_format][1]
    THEN [err |-> "AudioDemuxingError", format |-> input_format,
          path |-> input_path, looked |-> <<output_format, input_format>>]
    ELSE [err |-> None, format |-> "", path |-> "",
          looked |-> <<output_format, input_format>>]

\* The chain with the demux flag read where the mux flag is meant.
CheckDemuxFlagTwice(supported_formats, input_format, input_path, output_format, output_path) ==
    IF input_format \notin DOMAIN supported_formats
    THEN [err |-> "AudioFormatUnsupportedError", format |-> input_format,
          path |-> input_path, looked |-> <<input_format>>]
    ELSE IF ~supported_formats[input_format][1]
    THEN [err |-> "AudioDemuxingError", format |-> input_format,
          path |-> input_path, looked |-> <<input_format>>]
    ELSE IF output_format \notin DOMAIN supported_formats
    THEN [err |-> "AudioFormatUnsupportedError", format |-> output_format,
          path |-> output_path, looked |-> <<input_format, output_format>>]
    ELSE IF ~supported_formats[output_format][1]
    THEN [err |-> "AudioMuxingError", format |-> output_format,
          path |-> output_path, looked |-> <<input_format, output_format>>]
    ELSE [err |-> None, format |-> "", path |-> "",
          looked |-> <<input_format, output_format>>]

\* The if / elif chain of _validate_audio_formats on the loaded dict.
\* looked lists the formats looked up in the dict, in order.
CheckAudioFormats(supported_formats, input_format, input_path, output_format, output_path) ==
    IF input_format \notin DOMAIN supported_formats
    THEN [err |-> "AudioFormatUnsupportedError", format |-> input_format,
          path |-> input_path, looked |-> <<input_format>>]
    ELSE IF ~supported_formats[input_format][1]
    THEN [err |-> "AudioDemuxingError", format |-> input_format,
          path |-> input_path, looked |-> <<input_format>>]
    ELSE IF output_format \notin DOMAIN supported_formats
    THEN [err |-> "AudioFormatUnsupportedError", format |-> output_format,
          path |-> output_path, looked |-> <<input_format, output_format>>]
    ELSE IF ~supported_formats[output_format][2]
    THEN [err |-> "AudioMuxingError", format |-> output_format,
          path |-> output_path, looked |-> <<input_format, output_format>>]
    ELSE [err |-> None, format |-> "", path |-> "",
          looked |-> <<input_format, output_format>>]

\* _validate_audio_formats: the memoized load of the default path, then the
\* checks; an error of the load propagates.
ValidateAudioFormats(c, fls, input_format, input_path, output_format, output_path) ==
    LET loaded == LoadAudioFormatsDict(c, fls, <<>>) IN
    IF loaded.err # None
    THEN [cache |-> loaded.cache, loaded |-> FALSE, map |-> EmptyDict,
          err |-> loaded.err, format |-> "", path |-> "", looked |-> <<>>]
    ELSE LET r == CheckAudioFormats(loaded.value, input_format, input_path,
                                    output_format, output_path)
         IN  [cache |-> loaded.cache, loaded |-> TRUE, map |-> loaded.value,
              err |-> r.err, format |-> r.format, path |-> r.path,
              looked |-> r.looked]

\* _save_audio_formats_dict: the build, then the dump; a failed build
\* leaves the file untouched.
SaveAudioFormatsDict(fls, save_path, version_ok, formats_ok, out) ==
    LET b == BuildAudioFormatsDict(version_ok, formats_ok, out) IN
    IF b.err # None THEN fls
    ELSE [fls EXCEPT ![save_path] = Json(b.formats)]

(***************************************************************************)
(* Specifications of the registry                                          *)
(***************************************************************************)
\* The capability maps over the aliases: what a build of some listing of
\* format lines returns.
CapabilityMaps ==
    UNION {[ks -> BOOLEAN \X BOOLEAN] : ks \in SUBSET Aliases}

Contents == {Absent, Corrupt} \cup {Json(d) : d \in CapabilityMaps}

\* Formats asked about: the aliases and one no listing names.
AskedFormats == Aliases \cup {"mp3"}

\* Listings of one line, for the saves made while the program runs.
LineListings == {<<l>> : l \in {ln \in FormatLines : Len(ln) = 8} \cup HeaderLines}

FewListings ==
    {<<<<" ", "D", "E", " ", "wav", " ", " ", "WAV">>>>,
     <<<<" ", "D", " ", " ", "wav", " ", " ", "WAV">>>>,
     <<<<"File", " ", "formats:">>>>}

NotFirst == [set |-> FALSE, value |-> EmptyDict]

InitRegistry(contents) ==
    /\ files \in [Paths -> contents]
    /\ cache = EmptyCache
    /\ first = NotFirst
    /\ last = NoCall
    /\ stdout = <<>>
    /\ built = NotBuilt
    /\ fs = None
    /\ model = None
    /\ env = None

Load ==
    \E args \in LoadArgs :
        LET r == LoadAudioFormatsDict(cache, files, args) IN
        /\ cache' = r.cache
        /\ first' = IF r.err = None /\ ~first.set
                    THEN [set |-> TRUE, value |-> r.value] ELSE first
        /\ last' = [op |-> "load", args |-> args, read |-> r.read,
                    err |-> r.err, value |-> r.value, before |-> cache,
                    content |-> files[IF args = <<>> THEN AUDIO_FORMATS_SAVE_PATH
                                      ELSE args[1]]]
        /\ UNCHANGED <<stdout, built, files, fs, model, env>>

Validate ==
    \E input_format, output_format \in AskedFormats :
        LET r == ValidateAudioFormats(cache, files, input_format, "in.audio",
                                      output_format, "out.audio")
        IN  /\ cache' = r.cache
            /\ first' = IF r.loaded /\ ~first.set
                        THEN [set |-> TRUE, value |-> r.map] ELSE first
            /\ last' = [op |-> "validate", input_format |-> input_format,
                        output_format |-> output_format, loaded |-> r.loaded,
                        map |-> r.map, err |-> r.err, format |-> r.format,
                        path |-> r.path, looked |-> r.looked]
            /\ UNCHANGED <<stdout, built, files, fs, model, env>>

Save(paths, listings) ==
    \E save_path \in paths, version_ok, formats_ok \in BOOLEAN, out \in listings :
        /\ files' = SaveAudioFormatsDict(files, save_path, version_ok, formats_ok, out)
        /\ UNCHANGED <<stdout, built, cache, first, fs, model, env, last>>

\* The environment removes a registry file or overwrites it with text that
\* is not JSON.
Damage(paths) ==
    \E p \in paths, c \in {Absent, Corrupt} :
        /\ files' = [files EXCEPT ![p] = c]
        /\ UNCHANGED <<stdout, built, cache, first, fs, model, env, last>>

\* Validation against the registry at the default path.
Init ==
    /\ InitRegistry(Contents)
    /\ files["other.json"] = Absent

SaveDefault == Save({AUDIO_FORMATS_SAVE_PATH}, LineListings)

DamageDefault == Damage({AUDIO_FORMATS_SAVE_PATH})

Next == Validate \/ SaveDefault \/ DamageDefault

Spec == Init /\ [][Next]_vars

\* Loads of registries at several paths.
FewContents == {Absent, Corrupt} \cup {Json(ParseLines(EmptyDict, l)) : l \in FewListings}

InitLoad == InitRegistry(FewContents)

SaveAny == Save(Paths, FewListings)

DamageAny == Damage(Paths)

NextLoad == Load \/ SaveAny \/ DamageAny

SpecLoad == InitLoad /\ [][NextLoad]_vars

(***************************************************************************)
(* file_utils.py: conversion to WAV                                        *)
(***************************************************************************)
\* A path is its stem and its suffix (pathlib's stem and suffix), the
\* suffix as a sequence of characters.  The disk holds the existing files:
\* a function of their paths.
Path(stem, suffix) == [stem |-> stem, suffix |-> suffix]

WavSuffix == <<".", "w", "a", "v">>

LowerChar(c) ==
    CASE c = "W" -> "w"
      [] c = "A" -> "a"
      [] c = "V" -> "v"
      [] c = "M" -> "m"
      [] c = "P" -> "p"
      [] OTHER -> c

\* str.lower()
Lower(s) == [i \in 1..Len(s) |-> LowerChar(s[i])]

\* Path.with_suffix
WithSuffix(path, suffix) == Path(path.stem, suffix)

Exists(f, path) == path \in DOMAIN f

\* Writing a file creates it or replaces its content.
WriteFile(f, path, content) ==
    [p \in (DOMAIN f) \cup {path} |-> IF p = path THEN content ELSE f[p]]

\* Path.unlink
Unlink(f, path) == [p \in (DOMAIN f) \ {path} |-> f[p]]

\* A waveform: the recording it comes from and the track of it that it holds.
Wave(sound, track) == [sound |-> sound, track |-> track]

PartialFile == Wave("", "partial")

Returned(f, path) == [fs |-> f, err |-> None, ret |-> path]

Threw(f, err) == [fs |-> f, err |-> err, ret |-> Path("", <<>>)]

\* The conversion with the suffix compared as written, without lower().
ConvertCaseSensitive(f, input_path, keep_input_file, decode_ok, encode_ok, leaves_partial, unlink_ok) ==
    IF input_path.suffix = WavSuffix THEN Returned(f, input_path)
    ELSE LET output_path == WithSuffix(input_path, WavSuffix) IN
         IF ~Exists(f, input_path) \/ ~decode_ok THEN Threw(f, "DecodeError")
         ELSE IF ~encode_ok THEN Threw(f, "EncodeError")
         ELSE IF keep_input_file
         THEN Returned(WriteFile(f, output_path, f[input_path]), output_path)
         ELSE Returned(Unlink(WriteFile(f, output_path, f[input_path]), input_path),
                       output_path)

\* The conversion with the test of keep_input_file inverted.
ConvertKeepInverted(f, input_path, keep_input_file, decode_ok, encode_ok, leaves_partial, unlink_ok) ==
    IF Lower(input_path.suffix) = WavSuffix THEN Returned(f, input_path)
    ELSE LET output_path == WithSuffix(input_path, WavSuffix) IN
         IF ~Exists(f, input_path) \/ ~decode_ok THEN Threw(f, "DecodeError")
         ELSE IF ~encode_ok THEN Threw(f, "EncodeError")
         ELSE IF ~keep_input_file
         THEN Returned(WriteFile(f, output_path, f[input_path]), output_path)
         ELSE Returned(Unlink(WriteFile(f, output_path, f[input_path]), input_path),
                       output_path)

\* The conversion with the input unlinked before it is decoded.
ConvertUnlinkFirst(f, input_path, keep_input_file, decode_ok, encode_ok, leaves_partial, unlink_ok) ==
    IF Lower(input_path.suffix) = WavSuffix THEN Returned(f, input_path)
    ELSE LET output_path == WithSuffix(input_path, WavSuffix)
             g == IF keep_input_file THEN f ELSE Unlink(f, input_path)
         IN  IF ~Exists(f, input_path) \/ ~decode_ok THEN Threw(g, "DecodeError")
             ELSE IF ~encode_ok THEN Threw(g, "EncodeError")
             ELSE Returned(WriteFile(g, output_path, f[input_path]), output_path)

\* convert_to_wav.  AudioSegment.from_file fails when the file is missing
\* or cannot be decoded (decode_ok); export fails when encode_ok is false,
\* and may then leave a partial output file (leaves_partial); unlink fails
\* when unlink_ok is false.  Every failure propagates from where it occurs.
ConvertToWav(f, input_path, keep_input_file, decode_ok, encode_ok, leaves_partial, unlink_ok) ==
    IF Lower(input_path.suffix) = WavSuffix THEN Returned(f, input_path)
    ELSE LET output_path == WithSuffix(input_path, WavSuffix)
             exported == WriteFile(f, output_path, f[input_path])
         IN  IF ~Exists(f, input_path) \/ ~decode_ok THEN Threw(f, "DecodeError")
             ELSE IF ~encode_ok
             THEN Threw(IF leaves_partial
                        THEN WriteFile(f, output_path, PartialFile) ELSE f,
                        "EncodeError")
             ELSE IF keep_input_file THEN Returned(exported, output_path)
             ELSE IF ~unlink_ok THEN Threw(exported, "OSError")
             ELSE Returned(Unlink(exported, input_path), output_path)

(***************************************************************************)
(* Specification of the conversion                                         *)
(***************************************************************************)
Suffixes ==
    {WavSuffix, <<".", "W", "A", "V">>, <<".", "M", "P", "3">>, <<>>}

ConvertPaths == {Path("song", x) : x \in Suffixes}

Sounds == {"mix1", "mix2"}

\* The disks holding up to MaxFiles of the files.
MaxFiles == 2

Disks(paths) ==
    UNION {[ps -> {Wave(x, "mix") : x \in Sounds}] :
               ps \in {q \in SUBSET paths : Cardinality(q) <= MaxFiles}}

InitConvert ==
    /\ fs \in Disks(ConvertPaths)
    /\ last = NoCall
    /\ stdout = <<>>
    /\ built = NotBuilt
    /\ files = None
    /\ cache = None
    /\ first = None
    /\ model = None
    /\ env = None

Convert ==
    \E input_path \in ConvertPaths,
       keep_input_file, decode_ok, encode_ok, leaves_partial, unlink_ok \in BOOLEAN :
        LET r == ConvertToWav(fs, input_path, keep_input_file, decode_ok,
                              encode_ok, leaves_partial, unlink_ok)
        IN  /\ fs' = r.fs
            /\ last' = [op |-> "convert", input_path |-> input_path,
                        keep_input_file |-> keep_input_file,
                        ret |-> r.ret, err |-> r.err, before |-> fs]
            /\ UNCHANGED <<stdout, built, files, cache, first, model, env>>

NextConvert == Convert

SpecConvert == InitConvert /\ [][NextConvert]_vars

(***************************************************************************)
(* source_separation.py: the memoized model and the isolation              *)
(***************************************************************************)
NoModel == [loaded |-> FALSE, instance |-> 0, device |-> ""]

\* The acquisition with the body run on every call, nothing memoized.
GetModelUncached(m, e, get_ok, to_ok) ==
    LET device == IF e.cuda THEN "cuda:0" ELSE "cpu" IN
    IF ~get_ok
    THEN [model |-> m, env |-> e, err |-> "ModelLoadError", ran |-> FALSE,
          queried |-> FALSE, instance |-> 0, device |-> ""]
    ELSE IF ~to_ok
    THEN [model |-> m, env |-> e, err |-> "DeviceError", ran |-> FALSE,
          queried |-> TRUE, instance |-> 0, device |-> ""]
    ELSE [model |-> [loaded |-> TRUE, instance |-> e.loads + 1, device |-> device],
          env |-> [e EXCEPT !.loads = e.loads + 1], err |-> None, ran |-> TRUE,
          queried |-> TRUE, instance |-> e.loads + 1, device |-> device]

\* _get_htdemucs_model under @lru_cache(maxsize=1), a function of no
\* arguments: once the body has returned, every call returns that model.  The
\* body loads the pretrained model (get_ok), asks whether CUDA is available
\* and moves the model to the device chosen (to_ok).  e.loads counts the
\* bodies that returned; each returns a new model instance.
GetHtdemucsModel(m, e, get_ok, to_ok) ==
    LET device == IF e.cuda THEN "cuda:0" ELSE "cpu" IN
    IF m.loaded
    THEN [model |-> m, env |-> e, err |-> None, ran |-> FALSE,
          queried |-> FALSE, instance |-> m.instance, device |-> m.device]
    ELSE IF ~get_ok
    THEN [model |-> m, env |-> e, err |-> "ModelLoadError", ran |-> FALSE,
          queried |-> FALSE, instance |-> 0, device |-> ""]
    ELSE IF ~to_ok
    THEN [model |-> m, env |-> e, err |-> "DeviceError", ran |-> FALSE,
          queried |-> TRUE, instance |-> 0, device |-> ""]
    ELSE [model |-> [loaded |-> TRUE, instance |-> e.loads + 1, device |-> device],
          env |-> [e EXCEPT !.loads = e.loads + 1], err |-> None, ran |-> TRUE,
          queried |-> TRUE, instance |-> e.loads + 1, device |-> device]

\* The stem isolate_guitar asks for and names its file after.
TrackName == "guitar"

Contains(seq, x) == \E i \in 1..Len(seq) : seq[i] = x

\* list.index
Index(seq, x) == CHOOSE i \in 1..Len(seq) : seq[i] = x /\ \A j \in 1..(i - 1) : seq[j] # x

\* apply_model: one waveform per source of the model, in the model's order.
ApplyModel(sources, waveform) ==
    [i \in 1..Len(sources) |-> Wave(waveform.sound, sources[i])]

\* _save_isolated_track's path: f'{base_path.stem}_{track_name}.wav' in the
\* directory of base_path.
TrackPath(base_path, track_name) ==
    Path(base_path.stem \o "_" \o track_name, WavSuffix)

Isolated(f, m, e, r, err, stage, ret) ==
    [fs |-> f, model |-> r.model, env |-> r.env, err |-> err, stage |-> stage,
     ret |-> ret, used |-> stage \notin {"load", "model"}, ran |-> r.ran,
     queried |-> r.queried, instance |-> r.instance, device |-> r.device]

NotAcquired(m, e) ==
    [model |-> m, env |-> e, err |-> None, ran |-> FALSE, queried |-> FALSE,
     instance |-> 0, device |-> ""]

NoPath == Path("", <<>>)

\* The isolation with a model that lacks the stem answered by the model's
\* last source instead of an error.
IsolateFallsBack(f, m, e, audio_path, load_ok, get_ok, to_ok, apply_ok, save_ok) ==
    IF ~Exists(f, audio_path) \/ ~load_ok
    THEN Isolated(f, m, e, NotAcquired(m, e), "AudioLoadError", "load", NoPath)
    ELSE LET r == GetHtdemucsModel(m, e, get_ok, to_ok) IN
         IF r.err # None THEN Isolated(f, m, e, r, r.err, "model", NoPath)
         ELSE IF ~apply_ok THEN Isolated(f, m, e, r, "RuntimeError", "apply", NoPath)
         ELSE LET separated_waveforms == ApplyModel(e.sources, f[audio_path])
                  guitar_index == IF Contains(e.sources, TrackName)
                                  THEN Index(e.sources, TrackName)
                                  ELSE Len(e.sources)
                  track_path == TrackPath(audio_path, TrackName)
              IN  IF ~save_ok
                  THEN Isolated(f, m, e, r, "AudioSaveError", "save", NoPath)
                  ELSE Isolated(WriteFile(f, track_path,
                                          separated_waveforms[guitar_index]),
                                m, e, r, None, "done", track_path)

\* isolate_guitar: torchaudio.load (load_ok), the memoized model, the model
\* applied on the model's device (apply_ok), the guitar stem picked by its
\* index among the model's sources, and the stem saved beside the input
\* (save_ok).  Every failure propagates from where it occurs; stage names the
\* step that failed.
IsolateGuitar(f, m, e, audio_path, load_ok, get_ok, to_ok, apply_ok, save_ok) ==
    IF ~Exists(f, audio_path) \/ ~load_ok
    THEN Isolated(f, m, e, NotAcquired(m, e), "AudioLoadError", "load", NoPath)
    ELSE LET r == GetHtdemucsModel(m, e, get_ok, to_ok) IN
         IF r.err # None THEN Isolated(f, m, e, r, r.err, "model", NoPath)
         ELSE IF ~apply_ok THEN Isolated(f, m, e, r, "RuntimeError", "apply", NoPath)
         ELSE IF ~Contains(e.sources, TrackName)
         THEN Isolated(f, m, e, r, "ValueError", "select", NoPath)
         ELSE LET separated_waveforms == ApplyModel(e.sources, f[audio_path])
                  guitar_index == Index(e.sources, TrackName)
                  track_path == TrackPath(audio_path, TrackName)
              IN  IF ~save_ok
                  THEN Isolated(f, m, e, r, "AudioSaveError", "save", NoPath)
                  ELSE Isolated(WriteFile(f, track_path,
                                          separated_waveforms[guitar_index]),
                                m, e, r, None, "done", track_path)

(***************************************************************************)
(* Specification of the isolation                                          *)
(***************************************************************************)
\* The sources of htdemucs_6s, and those of a four-stem model.
SixSources == <<"drums", "bass", "other", "vocals", "guitar", "piano">>

FourSources == <<"drums", "bass", "other", "vocals">>

IsolatePaths ==
    {Path("song", WavSuffix), Path("song", <<".", "M", "P", "3">>),
     Path("song_guitar", WavSuffix)}

\* Successful loads of the model after which no further call is modelled.
MaxLoads == 3

InitIsolate ==
    /\ fs \in Disks(IsolatePaths)
    /\ model = NoModel
    /\ env \in [cuda : BOOLEAN, sources : {SixSources, FourSources}, loads : {0}]
    /\ first = [set |-> FALSE, value |-> NoModel]
    /\ last = NoCall
    /\ stdout = <<>>
    /\ built = NotBuilt
    /\ files = None
    /\ cache = None

Isolate ==
    /\ env.loads < MaxLoads
    /\ \E audio_path \in IsolatePaths,
          load_ok, get_ok, to_ok, apply_ok, save_ok \in BOOLEAN :
          LET r == IsolateGuitar(fs, model, env, audio_path, load_ok, get_ok,
                                 to_ok, apply_ok, save_ok)
          IN  /\ fs' = r.fs
              /\ model' = r.model
              /\ env' = r.env
              /\ first' = IF r.ran /\ ~first.set
                          THEN [set |-> TRUE, value |-> r.model] ELSE first
              /\ last' = [op |-> "isolate", audio_path |-> audio_path,
                          err |-> r.err, stage |-> r.stage, ret |-> r.ret,
                          used |-> r.used, ran |-> r.ran, queried |-> r.queried,
                          instance |-> r.instance, device |-> r.device,
                          cached |-> model.loaded, before |-> fs]
              /\ UNCHANGED <<stdout, built, files, cache>>

\* CUDA becomes available or stops being available.
CudaChanges ==
    /\ env' = [env EXCEPT !.cuda = ~env.cuda]
    /\ UNCHANGED <<stdout, built, files, cache, fs, model, first, last>>

NextIsolate == Isolate \/ CudaChanges

SpecIsolate == InitIsolate /\ [][NextIsolate]_vars

(***************************************************************************)
(* Properties of the build                                                 *)
(***************************************************************************)
BuiltOk == built.done /\ built.err = None

\* The (alias, pair) assignments a line asks for, in the order of its aliases.
LineOccurrences(line) ==
    LET match == ReMatch(line)
        names == Split(match.g3)
    IN  IF ~match.matched THEN <<>>
        ELSE [i \in 1..Len(names) |->
                 [name |-> Text(names[i]),
                  value |-> <<match.g1 = "D", match.g2 = "E">>]]

RECURSIVE Occurrences(_)
Occurrences(lines) ==
    IF lines = <<>> THEN <<>>
    ELSE LineOccurrences(lines[1]) \o Occurrences(Tail(lines))

WavWave == [k \in {"wav", "wave"} |-> <<TRUE, TRUE>>]

\* C4 as stated: every alias of a matching line is mapped to the pair
\* (first flag is D, second flag is E), and the listing made of the line
\* `D E  wav,wave  WAV format` yields {"wav": [true,true], "wave": [true,true]}.
C4_Original ==
    BuiltOk =>
        /\ Len(stdout) = 1 =>
              \A o \in {LineOccurrences(stdout[1])[i] :
                            i \in 1..Len(LineOccurrences(stdout[1]))} :
                  /\ o.name \in DOMAIN built.formats
                  /\ built.formats[o.name] = o.value
        /\ stdout = <<SpacedFlagsLine>> => built.formats = WavWave

\* C4 (amended): every alias of a matching line is mapped to the pair (first
\* flag is D, second flag is E) and a line that does not match adds nothing;
\* the listing made of the line `DE  wav,wave  WAV format` yields exactly
\* {"wav": [true,true], "wave": [true,true]}, while the line
\* `D E  wav,wave  WAV format`, whose flags are not adjacent, does not match
\* and yields the empty map.
C4_AliasesShareFlags ==
    BuiltOk =>
        /\ Len(stdout) = 1 =>
              /\ \A o \in {LineOccurrences(stdout[1])[i] :
                               i \in 1..Len(LineOccurrences(stdout[1]))} :
                     /\ o.name \in DOMAIN built.formats
                     /\ built.formats[o.name] = o.value
              /\ ~ReMatch(stdout[1]).matched => built.formats = EmptyDict
        /\ stdout = <<AdjacentFlagsLine>> => built.formats = WavWave
        /\ stdout = <<SpacedFlagsLine>> => built.formats = EmptyDict

C4_Witness ==
    /\ BuiltOk
    /\ stdout = <<AdjacentFlagsLine>>
    /\ DOMAIN built.formats = {"wav", "wave"}

\* C5: the map holds, for every alias that occurs in a matching line, the pair
\* of its last occurrence in listing order, it holds nothing else, and a
\* repeated alias raises no error.
C5_LastOccurrenceWins ==
    built.done =>
        LET occ == Occurrences(stdout) IN
        /\ built.err = None \/ built.formats = EmptyDict
        /\ BuiltOk =>
              /\ DOMAIN built.formats = {occ[i].name : i \in 1..Len(occ)}
              /\ \A i \in 1..Len(occ) :
                     (\A j \in (i + 1)..Len(occ) : occ[j].name # occ[i].name)
                         => built.formats[occ[i].name] = occ[i].value

\* An alias occurs in two lines with different flags, and another alias
\* occurs only in the first of them.
C5_Witness ==
    /\ BuiltOk
    /\ Len(stdout) = 2
    /\ LET a == LineOccurrences(stdout[1])
           b == LineOccurrences(stdout[2])
       IN  /\ Len(a) = 2 /\ Len(b) = 1
           /\ a[1].name = b[1].name
           /\ a[1].value # b[1].value
           /\ a[2].name # b[1].name
           /\ built.formats[a[1].name] = b[1].value
           /\ built.formats[a[2].name] = a[2].value

(***************************************************************************)
(* Properties of the validation                                            *)
(***************************************************************************)
Validated == last.op = "validate" /\ last.loaded

InputAbsent == last.input_format \notin DOMAIN last.map

InputUndecodable == ~InputAbsent /\ ~last.map[last.input_format][1]

OutputAbsent == last.output_format \notin DOMAIN last.map

OutputUnencodable == ~OutputAbsent /\ ~last.map[last.output_format][2]

Raised(err, format, path) ==
    last.err = err /\ last.format = format /\ last.path = path

\* C1: on a loaded map the outcome of validate is that of the first failing
\* check in the order input absent, input not decodable, output absent,
\* output not encodable; no check fails exactly when no error is raised; and
\* the output format is not looked up when an input check fails.
C1_FirstFailingCheck ==
    Validated =>
        /\ InputAbsent =>
              /\ Raised("AudioFormatUnsupportedError", last.input_format, "in.audio")
              /\ last.looked = <<last.input_format>>
        /\ InputUndecodable =>
              /\ Raised("AudioDemuxingError", last.input_format, "in.audio")
              /\ last.looked = <<last.input_format>>
        /\ ~InputAbsent /\ ~InputUndecodable /\ OutputAbsent =>
              Raised("AudioFormatUnsupportedError", last.output_format, "out.audio")
        /\ ~InputAbsent /\ ~InputUndecodable /\ OutputUnencodable =>
              Raised("AudioMuxingError", last.output_format, "out.audio")
        /\ ~InputAbsent /\ ~InputUndecodable /\ ~OutputAbsent /\ ~OutputUnencodable
              => last.err = None

\* Both an input check and an output check fail, and the input's error is
\* the one raised.
C1_Witness ==
    /\ Validated
    /\ InputUndecodable
    /\ OutputUnencodable
    /\ last.input_format # last.output_format
    /\ last.err = "AudioDemuxingError"

\* C2 as stated: an absent input or output format always raises
\* AudioFormatUnsupportedError.
C2_Original ==
    Validated /\ (InputAbsent \/ OutputAbsent)
        => last.err = "AudioFormatUnsupportedError"

\* C2 (amended): an absent input format raises AudioFormatUnsupportedError
\* for the input whatever the output format is; an absent output format
\* raises AudioFormatUnsupportedError for the output when the input format
\* is present and decodable, and AudioDemuxingError for the input when the
\* input format is present and not decodable.
C2_AbsentFormat ==
    Validated =>
        /\ InputAbsent =>
              Raised("AudioFormatUnsupportedError", last.input_format, "in.audio")
        /\ OutputAbsent /\ ~InputAbsent /\ last.map[last.input_format][1] =>
              Raised("AudioFormatUnsupportedError", last.output_format, "out.audio")
        /\ OutputAbsent /\ ~InputAbsent /\ ~last.map[last.input_format][1] =>
              Raised("AudioDemuxingError", last.input_format, "in.audio")

\* The output format is absent while the input format is present and not
\* decodable.
C2_Witness ==
    /\ Validated
    /\ OutputAbsent
    /\ InputUndecodable
    /\ Raised("AudioDemuxingError", last.input_format, "in.audio")

(***************************************************************************)
(* Properties of the memoized load                                         *)
(***************************************************************************)
Loaded == last.op = "load"

CacheHit == last.before.full /\ last.before.key = last.args

\* C3 as stated: once a load has succeeded, every later load returns the
\* first-loaded map without reading a file, whatever argument it passes.
C3_Original ==
    Loaded /\ last.before.full =>
        /\ ~last.read
        /\ last.err = None
        /\ last.value = first.value

\* C3 (amended): a load call whose arguments are those of the memoized call
\* returns the memoized map without reading any file, whatever the file
\* contents have become; a call with other arguments (another path, or the
\* default path passed explicitly after it was passed implicitly, or the
\* reverse) reads the file its argument names and, when that succeeds,
\* returns the file's map and memoizes it in place of the earlier entry; a
\* load that fails (file absent or unparseable) is not memoized and leaves
\* the memoized entry as it was.
C3_MemoizedPerArguments ==
    Loaded =>
        /\ CacheHit =>
              /\ ~last.read
              /\ last.err = None
              /\ last.value = last.before.value
              /\ cache = last.before
        /\ ~CacheHit =>
              /\ last.read
              /\ last.content.kind = "json" =>
                    /\ last.err = None
                    /\ last.value = last.content.data
                    /\ cache = [full |-> TRUE, key |-> last.args,
                                value |-> last.value]
              /\ last.content.kind = "absent" =>
                    last.err = "FileNotFoundError" /\ cache = last.before
              /\ last.content.kind = "corrupt" =>
                    last.err = "JSONDecodeError" /\ cache = last.before

\* The default path is loaded explicitly after it was loaded implicitly:
\* the file is read again and its new map replaces the first-loaded one.
C3_Witness ==
    /\ Loaded
    /\ last.before.full
    /\ last.before.key = <<>>
    /\ last.args = <<AUDIO_FORMATS_SAVE_PATH>>
    /\ last.read
    /\ last.err = None
    /\ last.value # first.value
    /\ cache.value = last.value

(***************************************************************************)
(* Properties of the conversion                                            *)
(***************************************************************************)
Converted == last.op = "convert"

Canonical(path) == Lower(path.suffix) = WavSuffix

Sibling(path) == Path(path.stem, WavSuffix)

\* C6: a convert call on a path whose suffix is .wav in any letter case
\* returns that path without error and leaves the disk as it was, whatever
\* keep_input_file is; a second such call right after a first on the same
\* path returns the same path as the first, the disk again unchanged.
C6_CanonicalIsNoOp ==
    [][(last'.op = "convert" /\ Canonical(last'.input_path)) =>
          /\ last'.err = None
          /\ last'.ret = last'.input_path
          /\ fs' = fs
          /\ (last.op = "convert" /\ last.input_path = last'.input_path) =>
                last'.ret = last.ret /\ fs' = last.before]_vars

\* Two calls in a row on an upper-case .WAV path that exists, the second
\* asking for the input to be deleted.
C6_Witness ==
    /\ Converted
    /\ last.input_path = Path("song", <<".", "W", "A", "V">>)
    /\ ~last.keep_input_file
    /\ Exists(last.before, last.input_path)
    /\ last.ret = last.input_path
    /\ fs = last.before
    /\ Exists(fs, last.input_path)

ConvertedOk == Converted /\ ~Canonical(last.input_path) /\ last.err = None

\* C7: after a convert call that succeeded on a path whose suffix is not
\* .wav, the returned path is the sibling .wav path and holds the converted
\* audio; without keep_input_file the input no longer exists, so exactly one
\* of the two paths exists; with keep_input_file both exist, the input as it
\* was.
C7_FilesAfterConversion ==
    ConvertedOk =>
        /\ last.ret = Sibling(last.input_path)
        /\ Exists(fs, last.ret)
        /\ fs[last.ret] = last.before[last.input_path]
        /\ ~last.keep_input_file => ~Exists(fs, last.input_path)
        /\ last.keep_input_file =>
              /\ Exists(fs, last.input_path)
              /\ fs[last.input_path] = last.before[last.input_path]
        /\ Cardinality({last.input_path, last.ret} \cap DOMAIN fs)
              = IF last.keep_input_file THEN 2 ELSE 1

\* A conversion that deleted its input and replaced an older sibling file.
C7_Witness ==
    /\ ConvertedOk
    /\ ~last.keep_input_file
    /\ Exists(last.before, Sibling(last.input_path))
    /\ last.before[Sibling(last.input_path)] # last.before[last.input_path]
    /\ ~Exists(fs, last.input_path)
    /\ Exists(fs, last.ret)

\* C10: a convert call on a path whose suffix is not .wav that fails in
\* decoding or encoding raises the error and leaves the input file as it
\* was, whatever keep_input_file is; one that fails in deleting the input
\* raises the error and leaves the converted file on disk; the input is gone
\* only when the call returned without error.
C10_DeleteOnlyAfterExport ==
    Converted /\ ~Canonical(last.input_path) =>
        /\ last.err \in {"DecodeError", "EncodeError"} =>
              /\ Exists(last.before, last.input_path) =>
                    /\ Exists(fs, last.input_path)
                    /\ fs[last.input_path] = last.before[last.input_path]
              /\ ~Exists(last.before, last.input_path) => last.err = "DecodeError"
        /\ last.err = "OSError" =>
              /\ ~last.keep_input_file
              /\ Exists(fs, Sibling(last.input_path))
              /\ fs[Sibling(last.input_path)] = last.before[last.input_path]
              /\ Exists(fs, last.input_path)
        /\ (Exists(last.before, last.input_path) /\ ~Exists(fs, last.input_path)) =>
              /\ last.err = None
              /\ Exists(fs, Sibling(last.input_path))

\* The encoding failed in a call that was to delete its input.
C10_Witness ==
    /\ Converted
    /\ ~Canonical(last.input_path)
    /\ ~last.keep_input_file
    /\ last.err = "EncodeError"
    /\ Exists(fs, last.input_path)
    /\ Exists(fs, Sibling(last.input_path))
    /\ fs[Sibling(last.input_path)] = PartialFile

(***************************************************************************)
(* Properties of the isolation                                             *)
(***************************************************************************)
IsolateCalled == last.op = "isolate"

\* C8: over any sequence of isolate calls at most one load of the model
\* succeeds; the call in which it succeeds is the first to get a model, and
\* every call that gets a model gets that instance on the device chosen
\* then; a call made when the model is memoized neither loads a model nor
\* asks whether CUDA is available.
C8_ModelLoadedOnce ==
    /\ env.loads <= 1
    /\ model.loaded = first.set
    /\ model.loaded => model = first.value /\ env.loads = 1
    /\ IsolateCalled /\ last.used =>
          /\ first.set
          /\ last.instance = first.value.instance
          /\ last.device = first.value.device
          /\ last.cached => ~last.ran /\ ~last.queried
          /\ ~last.cached => last.ran /\ last.queried

\* A call reuses the model on the CUDA device chosen by an earlier call
\* although CUDA is no longer available.
C8_Witness ==
    /\ IsolateCalled
    /\ last.used
    /\ last.cached
    /\ last.device = "cuda:0"
    /\ ~env.cuda
    /\ last.err = None

=============================================================================
